---- MODULE Spec2Model ----
(***************************************************************************)
(* Model of commands/paas_reporter.py: the line scanner                    *)
(* basic_yaml_syntax_check, the file gate (validate_absolute_path,         *)
(* validate_file_size, validate_yaml_file) and the batch loop of main.     *)
(*                                                                         *)
(* A Python str is modelled as a sequence of one-character strings, so     *)
(* that strip, lstrip, split, startswith, "in" and the key regex are       *)
(* computed character by character as the interpreter computes them.       *)
(***************************************************************************)
EXTENDS Integers, Sequences, FiniteSets, TLC

VARIABLES
  \* ---- one activation of basic_yaml_syntax_check ----
  pc,                 \* "idle" | "loop" | "returned"
  content,            \* the argument of the call
  lines,              \* content.split('\n')
  line_num,           \* number of the last line the for loop has taken
  indentation_stack,  \* the list indentation_stack
  current_indent,     \* the int current_indent
  result,             \* the returned (is_valid, error_msg)
  dirty,              \* history: the call began over a tracker an earlier call had used
  \* ---- main / validate_yaml_file ----
  mpc,                \* position in main and validate_yaml_file
  argc,               \* len(sys.argv)
  fs,                 \* the candidate files on disk: path -> file
  manifest,           \* what is on disk at sys.argv[1]
  file_lines,         \* file.readlines() of the manifest
  line_number,        \* the manifest line the loop is at
  filepath,           \* line.strip()
  success_count,
  error_count,
  trace,              \* file-system operations done for the current entry
  processed,          \* manifest line numbers handed to validate_yaml_file
  verdicts,           \* what validate_yaml_file returned, in order
  exit_code,          \* -1 while running
  fatal,              \* what made main call sys.exit(1), "" if nothing did
  summary             \* the summary line, once printed

scanVars == <<pc, content, lines, line_num, indentation_stack, current_indent, result, dirty>>
mainVars == <<mpc, argc, fs, manifest, file_lines, line_number, filepath,
              success_count, error_count, trace, processed, verdicts, exit_code, fatal, summary>>
vars == <<scanVars, mainVars>>

----------------------------------------------------------------------------
(* Bounds of the inputs                                                    *)

MaxIndent == 2        \* leading spaces put in front of a line body
MaxLines == 2         \* lines of a text of mixed lines
MaxDeepLines == 5     \* lines of a text of key lines
MaxManifest == 2      \* lines of the manifest

----------------------------------------------------------------------------
(* Python str primitives                                                   *)

SP == " "
TAB == "\t"
NL == "\n"

\* str.isspace of one character (the characters used here)
IsSpace(c) == c \in {SP, TAB, NL}

\* regex \w on one character
IsWord(c) == c \in {"a", "b", "c", "_", "0"}

RECURSIVE LStrip(_)
LStrip(s) == IF s # <<>> /\ IsSpace(Head(s)) THEN LStrip(Tail(s)) ELSE s

RECURSIVE RStrip(_)
RStrip(s) ==
  IF s # <<>> /\ IsSpace(s[Len(s)]) THEN RStrip(SubSeq(s, 1, Len(s) - 1)) ELSE s

Strip(s) == RStrip(LStrip(s))

\* c in s
Contains(s, c) == \E i \in DOMAIN s : s[i] = c

\* s.startswith(c)
StartsWith(s, c) == s # <<>> /\ Head(s) = c

\* s.find(c) + 1, for a c that occurs in s
FirstIndex(s, c) == CHOOSE i \in DOMAIN s : s[i] = c /\ \A j \in 1..(i - 1) : s[j] # c

\* s.split(c, 1)[0]
SplitFirst(s, c) == IF Contains(s, c) THEN SubSeq(s, 1, FirstIndex(s, c) - 1) ELSE s

\* s.split(c): always at least one piece
RECURSIVE Split(_, _)
Split(s, c) ==
  IF ~Contains(s, c) THEN <<s>>
  ELSE <<SubSeq(s, 1, FirstIndex(s, c) - 1)>>
         \o Split(SubSeq(s, FirstIndex(s, c) + 1, Len(s)), c)

\* c.join(ls)
RECURSIVE Join(_, _)
Join(ls, c) ==
  IF ls = <<>> THEN <<>>
  ELSE IF Len(ls) = 1 THEN ls[1]
  ELSE ls[1] \o <<c>> \o Join(Tail(ls), c)

\* re.search(r'[^\w\s-]', key)
HasInvalidKeyChar(key) ==
  \E i \in DOMAIN key : ~(IsWord(key[i]) \/ IsSpace(key[i]) \/ key[i] = "-")

\* x in list
InList(x, l) == \E i \in DOMAIN l : l[i] = x

----------------------------------------------------------------------------
(* basic_yaml_syntax_check, one line at a time                             *)

MissingColon == "Missing colon in key-value pair or not a list item"
InvalidKeyChar == "Invalid character in key"
TabFound == "Tab character found (YAML uses spaces for indentation)"
Inconsistent == "Inconsistent indentation"

\* (True, "")
Valid == [is_valid |-> TRUE, line |-> 0, reason |-> "", key |-> <<>>]

\* (False, f"Line {line_num}: {reason}"), with the key the message quotes
Invalid(n, reason, key) == [is_valid |-> FALSE, line |-> n, reason |-> reason, key |-> key]

\* a skip test that knows blank lines only
IsSkippedBlankOnly(line) == Strip(line) = <<>>

\* not stripped or stripped.startswith('#')
IsSkipped(line) == Strip(line) = <<>> \/ StartsWith(Strip(line), "#")

\* len(line) - len(line.lstrip())
IndentOf(line) == Len(line) - Len(LStrip(line))

\* the two nested conditions that return "Missing colon ..."
MissingDelimiter(line) ==
  /\ ~Contains(line, ":") /\ ~StartsWith(Strip(line), "-")
  /\ Strip(line) # <<>> /\ ~StartsWith(Strip(line), "#")

\* line.split(':', 1)[0].strip()
KeyOf(line) == Strip(SplitFirst(line, ":"))

\* a key check whose character class lets '.' through as well
BadKeyDotAllowed(line) ==
  /\ Contains(line, ":")
  /\ \E i \in DOMAIN KeyOf(line) :
       ~(IsWord(KeyOf(line)[i]) \/ IsSpace(KeyOf(line)[i]) \/ KeyOf(line)[i] \in {"-", "."})

BadKey(line) == Contains(line, ":") /\ HasInvalidKeyChar(KeyOf(line))

\* a tab check that looks at the indentation only
HasTabLeading(line) == Contains(SubSeq(line, 1, IndentOf(line)), TAB)

HasTab(line) == Contains(line, TAB)

\* an "if" in place of the "while": one pop at most
PopOnce(stack, cur, indent) ==
  IF stack # <<>> /\ indent < cur
  THEN [stack |-> SubSeq(stack, 1, Len(stack) - 1), cur |-> stack[Len(stack)]]
  ELSE [stack |-> stack, cur |-> cur]

\* a pop loop with "<=" in place of "<": it pops past the matching entry
RECURSIVE PopLoopInclusive(_, _, _)
PopLoopInclusive(stack, cur, indent) ==
  IF stack # <<>> /\ indent <= cur
  THEN PopLoopInclusive(SubSeq(stack, 1, Len(stack) - 1), stack[Len(stack)], indent)
  ELSE [stack |-> stack, cur |-> cur]

\* while indentation_stack and indent < current_indent:
\*     current_indent = indentation_stack.pop()
RECURSIVE PopLoop(_, _, _)
PopLoop(stack, cur, indent) ==
  IF stack # <<>> /\ indent < cur
  THEN PopLoop(SubSeq(stack, 1, Len(stack) - 1), stack[Len(stack)], indent)
  ELSE [stack |-> stack, cur |-> cur]

\* an indentation block that pops on any smaller width and never rejects one
TrackerLenient(indent, stack, cur) ==
  IF indent > cur
  THEN [site |-> "", stack |-> Append(stack, cur), cur |-> indent]
  ELSE IF indent < cur
  THEN LET p == PopLoop(stack, cur, indent)
       IN  [site |-> "", stack |-> p.stack, cur |-> p.cur]
  ELSE [site |-> "", stack |-> stack, cur |-> cur]

\* an indentation block that, on a smaller width, sets current_indent and pops nothing
TrackerNoPop(indent, stack, cur) ==
  IF indent > cur
  THEN [site |-> "", stack |-> Append(stack, cur), cur |-> indent]
  ELSE IF indent < cur
  THEN IF ~InList(indent, stack)
       THEN [site |-> "absent", stack |-> stack, cur |-> cur]
       ELSE [site |-> "", stack |-> stack, cur |-> indent]
  ELSE [site |-> "", stack |-> stack, cur |-> cur]

\* an indentation block with ">=" in place of ">": an equal width is pushed too
TrackerPushOnEqual(indent, stack, cur) ==
  IF indent >= cur
  THEN [site |-> "", stack |-> Append(stack, cur), cur |-> indent]
  ELSE IF ~InList(indent, stack)
       THEN [site |-> "absent", stack |-> stack, cur |-> cur]
       ELSE LET p == PopLoop(stack, cur, indent)
            IN  [site |-> IF indent # p.cur THEN "mismatch" ELSE "",
                 stack |-> p.stack, cur |-> p.cur]

\* an indentation block that pushes the new width in place of the old one
TrackerPushIndent(indent, stack, cur) ==
  IF indent > cur
  THEN [site |-> "", stack |-> Append(stack, indent), cur |-> indent]
  ELSE IF indent < cur
  THEN IF ~InList(indent, stack)
       THEN [site |-> "absent", stack |-> stack, cur |-> cur]
       ELSE LET p == PopLoop(stack, cur, indent)
            IN  [site |-> IF indent # p.cur THEN "mismatch" ELSE "",
                 stack |-> p.stack, cur |-> p.cur]
  ELSE [site |-> "", stack |-> stack, cur |-> cur]

\* The indentation block: site is "" when it accepts the width, "absent" for the
\* return under "indent not in indentation_stack" and "mismatch" for the return
\* under "indent != current_indent".
Tracker(indent, stack, cur) ==
  IF indent > cur
  THEN [site |-> "", stack |-> Append(stack, cur), cur |-> indent]
  ELSE IF indent < cur
  THEN IF ~InList(indent, stack)
       THEN [site |-> "absent", stack |-> stack, cur |-> cur]
       ELSE LET p == PopLoop(stack, cur, indent)
            IN  [site |-> IF indent # p.cur THEN "mismatch" ELSE "",
                 stack |-> p.stack, cur |-> p.cur]
  ELSE [site |-> "", stack |-> stack, cur |-> cur]

\* a loop body that looks for the tab before the ':' and the key
LoopBodyTabFirst(line, n, stack, cur) ==
  IF IsSkipped(line)
  THEN [do |-> "skip", stack |-> stack, cur |-> cur, ret |-> Valid, site |-> ""]
  ELSE IF HasTab(line)
  THEN [do |-> "return", stack |-> stack, cur |-> cur,
        ret |-> Invalid(n, TabFound, <<>>), site |-> "tab"]
  ELSE IF MissingDelimiter(line)
  THEN [do |-> "return", stack |-> stack, cur |-> cur,
        ret |-> Invalid(n, MissingColon, <<>>), site |-> "colon"]
  ELSE IF BadKey(line)
  THEN [do |-> "return", stack |-> stack, cur |-> cur,
        ret |-> Invalid(n, InvalidKeyChar, KeyOf(line)), site |-> "key"]
  ELSE LET t == Tracker(IndentOf(line), stack, cur)
       IN  IF t.site # ""
           THEN [do |-> "return", stack |-> t.stack, cur |-> t.cur,
                 ret |-> Invalid(n, Inconsistent, <<>>), site |-> t.site]
           ELSE [do |-> "next", stack |-> t.stack, cur |-> t.cur,
                 ret |-> Valid, site |-> ""]

\* a loop body that runs the indentation block before the three shape checks
LoopBodyTrackerFirst(line, n, stack, cur) ==
  IF IsSkipped(line)
  THEN [do |-> "skip", stack |-> stack, cur |-> cur, ret |-> Valid, site |-> ""]
  ELSE LET t == Tracker(IndentOf(line), stack, cur)
       IN  IF t.site # ""
           THEN [do |-> "return", stack |-> t.stack, cur |-> t.cur,
                 ret |-> Invalid(n, Inconsistent, <<>>), site |-> t.site]
           ELSE IF MissingDelimiter(line)
           THEN [do |-> "return", stack |-> t.stack, cur |-> t.cur,
                 ret |-> Invalid(n, MissingColon, <<>>), site |-> "colon"]
           ELSE IF BadKey(line)
           THEN [do |-> "return", stack |-> t.stack, cur |-> t.cur,
                 ret |-> Invalid(n, InvalidKeyChar, KeyOf(line)), site |-> "key"]
           ELSE IF HasTab(line)
           THEN [do |-> "return", stack |-> t.stack, cur |-> t.cur,
                 ret |-> Invalid(n, TabFound, <<>>), site |-> "tab"]
           ELSE [do |-> "next", stack |-> t.stack, cur |-> t.cur,
                 ret |-> Valid, site |-> ""]

\* The body of the for loop on line number n: what it does ("skip", "return" or
\* "next"), the locals it leaves and, for "return", the value returned.
LoopBody(line, n, stack, cur) ==
  IF IsSkipped(line)
  THEN [do |-> "skip", stack |-> stack, cur |-> cur, ret |-> Valid, site |-> ""]
  ELSE IF MissingDelimiter(line)
  THEN [do |-> "return", stack |-> stack, cur |-> cur,
        ret |-> Invalid(n, MissingColon, <<>>), site |-> "colon"]
  ELSE IF BadKey(line)
  THEN [do |-> "return", stack |-> stack, cur |-> cur,
        ret |-> Invalid(n, InvalidKeyChar, KeyOf(line)), site |-> "key"]
  ELSE IF HasTab(line)
  THEN [do |-> "return", stack |-> stack, cur |-> cur,
        ret |-> Invalid(n, TabFound, <<>>), site |-> "tab"]
  ELSE LET t == Tracker(IndentOf(line), stack, cur)
       IN  IF t.site # ""
           THEN [do |-> "return", stack |-> t.stack, cur |-> t.cur,
                 ret |-> Invalid(n, Inconsistent, <<>>), site |-> t.site]
           ELSE [do |-> "next", stack |-> t.stack, cur |-> t.cur,
                 ret |-> Valid, site |-> ""]

\* The loop from line n + 1 on, over the locals (stack, cur)
RECURSIVE ScanFrom(_, _, _, _)
ScanFrom(ls, n, stack, cur) ==
  IF n >= Len(ls) THEN Valid
  ELSE LET b == LoopBody(ls[n + 1], n + 1, stack, cur)
       IN  IF b.do = "return" THEN b.ret ELSE ScanFrom(ls, n + 1, b.stack, b.cur)

\* The value of a call that starts from fresh locals
basic_yaml_syntax_check(c) == ScanFrom(Split(c, NL), 0, <<>>, 0)

----------------------------------------------------------------------------
(* The texts the scanner is called on                                      *)

Indent(k) == [i \in 1..k |-> SP]

\* One body for each way a line can meet the checks
Bodies ==
  { <<>>,                                   \* blank
    <<"#", TAB, ".">>,                      \* comment holding a tab and a '.'
    <<"a", ":">>,                           \* key
    <<"-", SP, "a">>,                       \* list item
    <<"a">>,                                \* neither ':' nor '-'
    <<"a", ".", "b", ":">>,                 \* '.' in the key
    <<"a", ":", TAB, "b">>,                 \* tab after a good key
    <<"a", TAB, "b">>,                      \* tab and no ':'
    <<"a", ".", "b", ":", TAB>>,            \* tab and '.' in the key
    <<TAB, "a", ":">> }                     \* tab in the leading white space

\* The key line at every width
PlainLines == { Indent(k) \o <<"a", ":">> : k \in 0..MaxIndent }

\* Every body at the margin and at the largest width, and the key line at every width
MixedLines == PlainLines \cup { Indent(k) \o b : k \in {0, MaxIndent}, b \in Bodies }

SeqsUpTo(S, n) == UNION { [1..k -> S] : k \in 1..n }

\* Short texts of every kind of line, and longer texts of key lines
Contents ==
  { Join(ls, NL) :
      ls \in SeqsUpTo(MixedLines, MaxLines) \cup SeqsUpTo(PlainLines, MaxDeepLines) }

----------------------------------------------------------------------------
(* The scanner as a process: a caller makes call after call                *)

NoResult == [is_valid |-> FALSE, line |-> 0, reason |-> "", key |-> <<>>]

ScanInit ==
  /\ pc = "idle"
  /\ content = <<>>
  /\ lines = <<>>
  /\ line_num = 0
  /\ indentation_stack = <<>>
  /\ current_indent = 0
  /\ result = NoResult
  /\ dirty = FALSE

\* a call that leaves the tracker as the call before left it
CallKeepsTracker(c) ==
  /\ pc = "idle"
  /\ pc' = "loop"
  /\ content' = c
  /\ lines' = Split(c, NL)
  /\ line_num' = 0
  /\ result' = NoResult
  /\ dirty' = (indentation_stack # <<>> \/ current_indent # 0)
  /\ UNCHANGED <<indentation_stack, current_indent>>

\* a call that looks for a tab in the whole text before it enters the loop
CallTabFirst(c) ==
  /\ pc = "idle"
  /\ content' = c
  /\ lines' = Split(c, NL)
  /\ indentation_stack' = <<>>
  /\ current_indent' = 0
  /\ dirty' = (indentation_stack # <<>> \/ current_indent # 0)
  /\ IF Contains(c, TAB)
     THEN LET n == CHOOSE k \in DOMAIN Split(c, NL) :
                     /\ Contains(Split(c, NL)[k], TAB)
                     /\ \A j \in 1..(k - 1) : ~Contains(Split(c, NL)[j], TAB)
          IN  /\ pc' = "returned"
              /\ line_num' = n
              /\ result' = Invalid(n, TabFound, <<>>)
     ELSE /\ pc' = "loop"
          /\ line_num' = 0
          /\ result' = NoResult

\* The call: the argument is bound and the locals are initialised
Call(c) ==
  /\ pc = "idle"
  /\ pc' = "loop"
  /\ content' = c
  /\ lines' = Split(c, NL)
  /\ line_num' = 0
  /\ indentation_stack' = <<>>
  /\ current_indent' = 0
  /\ result' = NoResult
  /\ dirty' = (indentation_stack # <<>> \/ current_indent # 0)

Body == LoopBody(lines[line_num + 1], line_num + 1, indentation_stack, current_indent)

\* continue
SkipLine ==
  /\ pc = "loop" /\ line_num < Len(lines)
  /\ Body.do = "skip"
  /\ line_num' = line_num + 1
  /\ UNCHANGED <<pc, content, lines, indentation_stack, current_indent, result, dirty>>

\* the line passes every check
AcceptLine ==
  /\ pc = "loop" /\ line_num < Len(lines)
  /\ Body.do = "next"
  /\ line_num' = line_num + 1
  /\ indentation_stack' = Body.stack
  /\ current_indent' = Body.cur
  /\ UNCHANGED <<pc, content, lines, result, dirty>>

\* return False, error_msg
RejectLine ==
  /\ pc = "loop" /\ line_num < Len(lines)
  /\ Body.do = "return"
  /\ line_num' = line_num + 1
  /\ indentation_stack' = Body.stack
  /\ current_indent' = Body.cur
  /\ result' = Body.ret
  /\ pc' = "returned"
  /\ UNCHANGED <<content, lines, dirty>>

\* return True, ""
Finish ==
  /\ pc = "loop" /\ line_num = Len(lines)
  /\ result' = Valid
  /\ pc' = "returned"
  /\ UNCHANGED <<content, lines, line_num, indentation_stack, current_indent, dirty>>

\* The caller takes the value; the frame is gone, what its locals held is
\* whatever the next call finds before it initialises them
Return ==
  /\ pc = "returned"
  /\ pc' = "idle"
  /\ content' = <<>>
  /\ lines' = <<>>
  /\ line_num' = 0
  /\ result' = NoResult
  /\ UNCHANGED <<indentation_stack, current_indent, dirty>>

ScanNext ==
  \/ pc = "idle" /\ (\E c \in Contents : Call(c)) /\ UNCHANGED mainVars
  \/ SkipLine /\ UNCHANGED mainVars
  \/ AcceptLine /\ UNCHANGED mainVars
  \/ RejectLine /\ UNCHANGED mainVars
  \/ Finish /\ UNCHANGED mainVars
  \/ Return /\ UNCHANGED mainVars

----------------------------------------------------------------------------
(* The file system main runs against                                       *)

\* max_size_bytes=1048576
DefaultMaxSize == 1048576

\* What a path names: no regular file, or a regular file with what
\* os.path.getsize and open/read do on it
NoFile == [isfile |-> FALSE, size |-> 0, stat |-> "ok", read |-> "ok", text |-> <<>>]

File(size, stat, read, text) ==
  [isfile |-> TRUE, size |-> size, stat |-> stat, read |-> read, text |-> text]

GoodText == <<"a", ":", NL, SP, SP, "b", ":", NL, "c", ":">>
BadText == <<"a", ":", NL, "a", ".", "b", ":">>

FileKinds ==
  { NoFile,
    File(DefaultMaxSize - 1, "ok", "ok", GoodText),
    File(DefaultMaxSize, "ok", "ok", GoodText),
    File(DefaultMaxSize + 1, "ok", "ok", GoodText),
    File(DefaultMaxSize, "OSError", "ok", GoodText),
    File(DefaultMaxSize - 1, "ok", "UnicodeDecodeError", <<>>),
    File(DefaultMaxSize - 1, "ok", "ok", BadText) }

\* The paths that may name a file; any other path names none
Paths == { <<"/", "a">>, <<"b">> }

FileAt(p) == IF p \in Paths THEN fs[p] ELSE NoFile

\* Lines of the manifest as written, each with its line end
ManifestEntries ==
  { <<NL>>,
    <<SP, SP, NL>>,
    <<"/", "a", NL>>,
    <<SP, "/", "a", SP, NL>>,
    <<"/", "c", NL>>,
    <<"b", NL>> }

RECURSIVE Concat(_)
Concat(ls) == IF ls = <<>> THEN <<>> ELSE Head(ls) \o Concat(Tail(ls))

\* The manifest may be empty
ManifestTexts == { <<>> } \cup { Concat(ls) : ls \in SeqsUpTo(ManifestEntries, MaxManifest) }

\* sys.argv[1] names no regular file
NoManifest == [isfile |-> FALSE, text |-> <<>>]

\* file.readlines(): the lines with their line ends
RECURSIVE ReadLines(_)
ReadLines(text) ==
  IF text = <<>> THEN <<>>
  ELSE IF ~Contains(text, NL) THEN <<text>>
  ELSE <<SubSeq(text, 1, FirstIndex(text, NL))>>
         \o ReadLines(SubSeq(text, FirstIndex(text, NL) + 1, Len(text)))

\* How the open/readlines of the manifest can end
OpenOutcomes == {"ok", "FileNotFoundError", "PermissionError", "UnicodeDecodeError", "OSError"}

\* a check that also lets through a relative path at which a file exists
validate_absolute_path_or_exists(p) == StartsWith(p, "/") \/ FileAt(p).isfile

\* os.path.isabs on POSIX
validate_absolute_path(p) == StartsWith(p, "/")

\* os.path.isfile
IsFile(p) == FileAt(p).isfile

\* ">=" in place of ">"
validate_file_size_ge(p, max_size_bytes) ==
  IF FileAt(p).stat # "ok" THEN FALSE
  ELSE ~(FileAt(p).size >= max_size_bytes)

\* validate_file_size: False on OSError, else not (file_size > max_size_bytes)
validate_file_size(p, max_size_bytes) ==
  IF FileAt(p).stat # "ok" THEN FALSE
  ELSE ~(FileAt(p).size > max_size_bytes)

\* open, read and scan: False on any exception, else is_valid
ReadAndCheck(p) ==
  IF FileAt(p).read # "ok" THEN FALSE
  ELSE basic_yaml_syntax_check(FileAt(p).text).is_valid

----------------------------------------------------------------------------
(* main and validate_yaml_file                                             *)

MainIdle ==
  /\ mpc = "start"
  /\ file_lines = <<>>
  /\ line_number = 0
  /\ filepath = <<>>
  /\ success_count = 0
  /\ error_count = 0
  /\ trace = <<>>
  /\ processed = <<>>
  /\ verdicts = <<>>
  /\ exit_code = -1
  /\ fatal = ""
  /\ summary = <<>>

MainInit ==
  /\ MainIdle
  /\ argc \in 1..3
  /\ manifest \in {NoManifest} \cup { [isfile |-> TRUE, text |-> t] : t \in ManifestTexts }
  /\ fs \in [Paths -> FileKinds]

\* the error is printed; sys.exit(1)
Exit1(why) ==
  /\ mpc' = "exited"
  /\ exit_code' = 1
  /\ fatal' = why

Running == UNCHANGED <<exit_code, fatal>>

\* if len(sys.argv) != 2: sys.exit(1)
CheckArgs ==
  /\ mpc = "start"
  /\ IF argc # 2 THEN Exit1("usage") ELSE mpc' = "isfile" /\ Running
  /\ UNCHANGED <<argc, fs, manifest, file_lines, line_number, filepath, success_count,
                 error_count, trace, processed, verdicts, summary>>

\* if not os.path.isfile(input_filename): sys.exit(1)
CheckManifest ==
  /\ mpc = "isfile"
  /\ IF ~manifest.isfile THEN Exit1("does not exist") ELSE mpc' = "open" /\ Running
  /\ UNCHANGED <<argc, fs, manifest, file_lines, line_number, filepath, success_count,
                 error_count, trace, processed, verdicts, summary>>

\* open and readlines; each except clause ends in sys.exit(1)
ReadManifest(outcome) ==
  /\ mpc = "open"
  /\ IF outcome = "ok"
     THEN /\ file_lines' = ReadLines(manifest.text)
          /\ mpc' = "for"
          /\ Running
     ELSE /\ Exit1(outcome)
          /\ UNCHANGED file_lines
  /\ UNCHANGED <<argc, fs, manifest, line_number, filepath, success_count,
                 error_count, trace, processed, verdicts, summary>>

\* for line_number, line in enumerate(file_lines, 1): an empty line
SkipEntry ==
  /\ mpc = "for" /\ line_number < Len(file_lines)
  /\ Strip(file_lines[line_number + 1]) = <<>>
  /\ line_number' = line_number + 1
  /\ filepath' = <<>>
  /\ trace' = <<>>
  /\ UNCHANGED <<mpc, argc, fs, manifest, file_lines, success_count, error_count,
                 processed, verdicts, exit_code, fatal, summary>>

\* ... a path: validate_yaml_file(filepath) is called
TakeEntry ==
  /\ mpc = "for" /\ line_number < Len(file_lines)
  /\ Strip(file_lines[line_number + 1]) # <<>>
  /\ line_number' = line_number + 1
  /\ filepath' = Strip(file_lines[line_number + 1])
  /\ processed' = Append(processed, line_number + 1)
  /\ trace' = <<>>
  /\ mpc' = "isabs"
  /\ UNCHANGED <<argc, fs, manifest, file_lines, success_count, error_count,
                 verdicts, exit_code, fatal, summary>>

Op(name, ok) == [op |-> name, ok |-> ok]

\* a main that gives up at the first entry that fails
ReturnedFailFast(v) ==
  /\ success_count' = IF v THEN success_count + 1 ELSE success_count
  /\ error_count' = IF v THEN error_count ELSE error_count + 1
  /\ verdicts' = Append(verdicts, v)
  /\ IF v THEN mpc' = "for" /\ Running
     ELSE mpc' = "exited" /\ exit_code' = 1 /\ UNCHANGED fatal

\* a main whose error_count += 1 is not under an else
ReturnedNoElse(v) ==
  /\ success_count' = IF v THEN success_count + 1 ELSE success_count
  /\ error_count' = error_count + 1
  /\ verdicts' = Append(verdicts, v)
  /\ mpc' = "for"
  /\ Running

\* validate_yaml_file returns v: main counts it and goes on with the loop
Returned(v) ==
  /\ success_count' = IF v THEN success_count + 1 ELSE success_count
  /\ error_count' = IF v THEN error_count ELSE error_count + 1
  /\ verdicts' = Append(verdicts, v)
  /\ mpc' = "for"
  /\ Running

\* One check of validate_yaml_file: it passes and the next one is due, or
\* validate_yaml_file returns False
Gate(here, name, ok, next) ==
  /\ mpc = here
  /\ trace' = Append(trace, Op(name, ok))
  /\ IF ok
     THEN mpc' = next /\ UNCHANGED <<success_count, error_count, verdicts, exit_code, fatal>>
     ELSE Returned(FALSE)
  /\ UNCHANGED <<argc, fs, manifest, file_lines, line_number, filepath, processed, summary>>

\* if not validate_absolute_path(filepath): return False
CheckAbsolute == Gate("isabs", "isabs", validate_absolute_path(filepath), "exists")

\* if not os.path.isfile(filepath): return False
CheckExists == Gate("exists", "isfile", IsFile(filepath), "size")

\* if not validate_file_size(filepath): return False
CheckSize == Gate("size", "getsize", validate_file_size(filepath, DefaultMaxSize), "read")

\* the try block: read, scan, return is_valid
ReadFile ==
  /\ mpc = "read"
  /\ trace' = Append(trace, Op("read", ReadAndCheck(filepath)))
  /\ Returned(ReadAndCheck(filepath))
  /\ UNCHANGED <<argc, fs, manifest, file_lines, line_number, filepath, processed, summary>>

\* the loop is over: the summary is printed and main returns
Summary ==
  /\ mpc = "for" /\ line_number = Len(file_lines)
  /\ summary' = <<success_count, error_count>>
  /\ exit_code' = 0
  /\ mpc' = "exited"
  /\ UNCHANGED fatal
  /\ UNCHANGED <<argc, fs, manifest, file_lines, line_number, filepath, success_count,
                 error_count, trace, processed, verdicts>>

MainNext ==
  \/ CheckArgs /\ UNCHANGED scanVars
  \/ CheckManifest /\ UNCHANGED scanVars
  \/ mpc = "open" /\ (\E o \in OpenOutcomes : ReadManifest(o)) /\ UNCHANGED scanVars
  \/ SkipEntry /\ UNCHANGED scanVars
  \/ TakeEntry /\ UNCHANGED scanVars
  \/ CheckAbsolute /\ UNCHANGED scanVars
  \/ CheckExists /\ UNCHANGED scanVars
  \/ CheckSize /\ UNCHANGED scanVars
  \/ ReadFile /\ UNCHANGED scanVars
  \/ Summary /\ UNCHANGED scanVars

----------------------------------------------------------------------------
(* Specifications                                                          *)

\* The scanner under call after call; main is not running
Init ==
  /\ ScanInit
  /\ MainIdle
  /\ argc = 2
  /\ manifest = NoManifest
  /\ fs = [p \in Paths |-> NoFile]

Next == ScanNext

Spec == Init /\ [][Next]_vars

\* One run of main over a manifest and a file system
BatchInit == ScanInit /\ MainInit

BatchNext == MainNext

BatchSpec == BatchInit /\ [][BatchNext]_vars

----------------------------------------------------------------------------
(* Properties of basic_yaml_syntax_check (checked under Spec)              *)

\* The numbers of the lines that are neither blank nor comments
ContentLines(ls) == { i \in DOMAIN ls : ~(Strip(ls[i]) = <<>> \/ StartsWith(Strip(ls[i]), "#")) }

Width(ls, i) == Len(ls[i]) - Len(LStrip(ls[i]))

\* ':' or a leading '-'
HasDelimiter(l) == Contains(l, ":") \/ StartsWith(Strip(l), "-")

\* the text before the first ':' holds word characters, white space and '-' only
KeyAllowed(l) == Contains(l, ":") => ~HasInvalidKeyChar(Strip(SplitFirst(l, ":")))

ShapeOK(l) == HasDelimiter(l) /\ KeyAllowed(l) /\ ~Contains(l, TAB)

WellShaped(ls) == \A i \in ContentLines(ls) : ShapeOK(ls[i])

\* The loop accepts every line before line i
PrefixPasses(ls, i) == ScanFrom(SubSeq(ls, 1, i - 1), 0, <<>>, 0) = Valid

\* each width is above every earlier one or equal to an earlier one
NewHighOrSeen(ls) ==
  \A i \in ContentLines(ls) :
    \/ \A j \in ContentLines(ls) : j < i => Width(ls, j) < Width(ls, i)
    \/ \E j \in ContentLines(ls) : j < i /\ Width(ls, j) = Width(ls, i)

\* the width of the content line before line i, 0 if there is none
PrevWidth(ls, i) ==
  LET before == { j \in ContentLines(ls) : j < i }
  IN  IF before = {} THEN 0
      ELSE Width(ls, CHOOSE j \in before : \A k \in before : k <= j)

\* width 0, or the width of an earlier content line with only deeper ones since
StillOpen(ls, i) ==
  \/ Width(ls, i) = 0
  \/ \E j \in ContentLines(ls) :
       /\ j < i /\ Width(ls, j) = Width(ls, i)
       /\ \A k \in ContentLines(ls) : (j < k /\ k < i) => Width(ls, k) > Width(ls, i)

DeeperOrOpen(ls) ==
  \A i \in ContentLines(ls) : Width(ls, i) > PrevWidth(ls, i) \/ StillOpen(ls, i)

\* C1 as stated: a well-shaped text whose widths only rise to a new high or
\* return to a width seen on an earlier content line is valid.
C1_AnySeenWidth ==
  (pc = "returned" /\ WellShaped(lines) /\ NewHighOrSeen(lines)) => result = Valid

\* C1 amended: a well-shaped text in which each content line is deeper than the
\* content line before it, or returns to a width still open (0, or the width of
\* an earlier content line with only deeper content lines in between), is valid.
C1_OpenWidthsValid ==
  (pc = "returned" /\ WellShaped(lines) /\ DeeperOrOpen(lines)) => result = Valid

\* a valid return after a line came back to an open width other than 0
C1_Witness ==
  /\ pc = "returned" /\ WellShaped(lines) /\ DeeperOrOpen(lines) /\ result = Valid
  /\ \E i \in ContentLines(lines) :
       Width(lines, i) > 0 /\ Width(lines, i) < PrevWidth(lines, i)

\* C2 as stated: a tab on any line makes the call return the tab error with
\* the number of that line (the first such line).
C2_AnyTabLine ==
  (pc = "returned" /\ \E i \in DOMAIN lines : Contains(lines[i], TAB)) =>
    LET i == CHOOSE k \in DOMAIN lines :
               Contains(lines[k], TAB) /\ \A j \in 1..(k - 1) : ~Contains(lines[j], TAB)
    IN  result = Invalid(i, TabFound, <<>>)

\* C2 amended: a content line that holds a tab, has a ':' or a leading '-' and
\* an allowed key, and comes after lines that all pass, makes the call return
\* the tab error with that line's number.
C2_TabOnCheckedLine ==
  pc = "returned" =>
    \A i \in ContentLines(lines) :
      (Contains(lines[i], TAB) /\ HasDelimiter(lines[i]) /\ KeyAllowed(lines[i])
         /\ PrefixPasses(lines, i))
        => result = Invalid(i, TabFound, <<>>)

\* the tab error on a second line, after a line that passed
C2_Witness ==
  /\ pc = "returned" /\ result = Invalid(2, TabFound, <<>>)
  /\ 1 \in ContentLines(lines)
  /\ Contains(lines[2], TAB)

\* the line the loop takes next passes the shape checks and its width is
\* below current_indent and not on the stack
DedentOffStack ==
  /\ pc = "loop" /\ line_num < Len(lines)
  /\ LET l == lines[line_num + 1]
     IN  /\ line_num + 1 \in ContentLines(lines)
         /\ ShapeOK(l)
         /\ Width(lines, line_num + 1) < current_indent
         /\ ~InList(Width(lines, line_num + 1), indentation_stack)

\* C3: a line that passes the shape checks, narrower than current_indent and
\* of a width that is not on the stack, makes the call return "Inconsistent
\* indentation" with that line's number.
C3_DedentOffStackRejected ==
  [][DedentOffStack =>
       (pc' = "returned" /\ result' = Invalid(line_num + 1, Inconsistent, <<>>))]_vars

\* the return on widths 0, 2, 1: line 3 is narrower than 2 and 1 was never pushed
C3_Witness ==
  /\ pc = "returned" /\ result = Invalid(3, Inconsistent, <<>>)
  /\ ShapeOK(lines[3])
  /\ indentation_stack = <<0>> /\ current_indent = 2 /\ Width(lines, 3) = 1

\* C4: whatever calls came before, a call returns what a call from fresh
\* locals returns on the same text, and its loop starts with an empty stack
\* and current_indent 0.
C4_CallsIndependent ==
  /\ pc = "returned" => result = basic_yaml_syntax_check(content)
  /\ (pc = "loop" /\ line_num = 0) => (indentation_stack = <<>> /\ current_indent = 0)

\* a valid return of a call that began over the tracker an earlier call left
C4_Witness ==
  /\ pc = "returned" /\ dirty /\ result = Valid
  /\ current_indent > 0

\* The locals after the loop has accepted or skipped every line of ls
RECURSIVE LocalsAfter(_, _, _, _)
LocalsAfter(ls, n, stack, cur) ==
  IF n >= Len(ls) THEN [stack |-> stack, cur |-> cur]
  ELSE LET b == LoopBody(ls[n + 1], n + 1, stack, cur)
       IN  LocalsAfter(ls, n + 1, b.stack, b.cur)

\* line i of ls fails a check, given the locals that lines 1..i-1 produce
FailsAt(ls, i) ==
  LET st == LocalsAfter(SubSeq(ls, 1, i - 1), 0, <<>>, 0)
  IN  /\ i \in ContentLines(ls)
      /\ \/ ~ShapeOK(ls[i])
         \/ Width(ls, i) < st.cur /\ ~InList(Width(ls, i), st.stack)

\* C9: an invalid verdict names line n when the loop stopped at line n, every
\* line before n passes, line n fails a check under the locals lines 1..n-1
\* produce, and the text cut after line n has the same verdict.
C9_FirstViolationWins ==
  (pc = "returned" /\ ~result.is_valid) =>
    /\ result.line \in DOMAIN lines
    /\ line_num = result.line
    /\ PrefixPasses(lines, result.line)
    /\ \A j \in 1..(result.line - 1) : ~FailsAt(lines, j)
    /\ FailsAt(lines, result.line)
    /\ result = basic_yaml_syntax_check(Join(SubSeq(lines, 1, result.line), NL))

\* the verdict names line 1 of a text whose line 2 fails a check as well
C9_Witness ==
  /\ pc = "returned" /\ ~result.is_valid /\ result.line = 1
  /\ Len(lines) = 2 /\ 2 \in ContentLines(lines) /\ ~ShapeOK(lines[2])

\* C10: a content line with no ':' and no leading '-', after lines that all
\* pass, makes the call return the missing-colon error with that line's number.
C10_MissingDelimiterRejected ==
  pc = "returned" =>
    \A i \in ContentLines(lines) :
      (~Contains(lines[i], ":") /\ ~StartsWith(Strip(lines[i]), "-") /\ PrefixPasses(lines, i))
        => result = Invalid(i, MissingColon, <<>>)

\* the missing-colon error on a second line that also holds a tab
C10_Witness ==
  /\ pc = "returned" /\ result = Invalid(2, MissingColon, <<>>)
  /\ Contains(lines[2], TAB)

----------------------------------------------------------------------------
(* Properties of the file gate and of main (checked under BatchSpec)       *)

\* validate_yaml_file is running on filepath
InEntry == mpc \in {"isabs", "exists", "size", "read"}

C6_GateOrder ==
  /\ (mpc = "read" \/ \E i \in DOMAIN trace : trace[i].op = "read") =>
       /\ SubSeq(trace, 1, 3) = <<Op("isabs", TRUE), Op("isfile", TRUE), Op("getsize", TRUE)>>
       /\ \A i \in DOMAIN trace : trace[i].op = "read" => i = 4
       /\ Head(filepath) = "/" /\ FileAt(filepath).isfile
       /\ FileAt(filepath).stat = "ok" /\ FileAt(filepath).size <= DefaultMaxSize
  /\ (filepath # <<>> /\ Head(filepath) # "/" /\ mpc # "isabs") =>
       /\ trace = <<Op("isabs", FALSE)>>
       /\ verdicts # <<>> /\ verdicts[Len(verdicts)] = FALSE

\* a relative path at which a file exists has been rejected
C6_Witness ==
  /\ filepath = <<"b">> /\ fs[<<"b">>].isfile
  /\ trace = <<Op("isabs", FALSE)>>
  /\ mpc = "for"

ManifestFailures ==
  {"usage", "does not exist", "FileNotFoundError", "PermissionError", "UnicodeDecodeError",
   "OSError"}

\* C7: a non-zero exit code comes from a manifest-level failure only, before
\* any entry is processed; once the manifest is read the run stays alive
\* through the loop and ends, after the summary, with exit code 0.
C7_ExitCodes ==
  /\ mpc = "exited" => exit_code \in {0, 1}
  /\ (mpc = "exited" /\ exit_code # 0) =>
       (fatal \in ManifestFailures /\ processed = <<>> /\ summary = <<>>)
  /\ (mpc = "for" \/ InEntry) => (exit_code = -1 /\ fatal = "")
  /\ (mpc = "exited" /\ fatal = "") =>
       (exit_code = 0 /\ summary = <<success_count, error_count>>)

\* exit code 0 after every entry of the manifest failed
C7_Witness ==
  /\ mpc = "exited" /\ exit_code = 0
  /\ error_count = 2 /\ success_count = 0

\* the non-blank lines among the first n lines of the manifest
NonBlank(fl, n) == { i \in 1..n : Strip(fl[i]) # <<>> }

Count(seq, v) == Cardinality({ i \in DOMAIN seq : seq[i] = v })

\* C8: the loop hands every non-blank manifest line to validate_yaml_file once,
\* in manifest order; each returned verdict adds one to exactly one counter;
\* at the summary the two counters add up to the number of non-blank lines.
C8_EveryEntryCounted ==
  /\ Len(processed) = Cardinality(NonBlank(file_lines, line_number))
  /\ \A i \in DOMAIN processed : processed[i] \in NonBlank(file_lines, line_number)
  /\ \A i, j \in DOMAIN processed : i < j => processed[i] < processed[j]
  /\ Len(verdicts) = Len(processed) - (IF InEntry THEN 1 ELSE 0)
  /\ success_count = Count(verdicts, TRUE)
  /\ error_count = Count(verdicts, FALSE)
  /\ summary # <<>> =>
       summary[1] + summary[2] = Cardinality(NonBlank(file_lines, Len(file_lines)))

\* a valid file and then a missing one: 1 valid, 1 error
C8_Witness ==
  /\ mpc = "exited" /\ summary = <<1, 1>> /\ exit_code = 0
  /\ file_lines = << <<"/", "a", NL>>, <<"/", "c", NL>> >>
  /\ verdicts = <<TRUE, FALSE>>

----------------------------------------------------------------------------
(* Further properties of basic_yaml_syntax_check (checked under Spec)      *)

\* the text before the first ':' of l, trimmed
ClaimedKey(l) == Strip(SubSeq(l, 1, FirstIndex(l, ":") - 1))

\* C11: a content line whose key (the text before the first ':', trimmed)
\* holds a character that is no word character, white space or '-', after
\* lines that all pass, makes the call return the invalid-key error with
\* that line's number.
C11_InvalidKeyRejected ==
  pc = "returned" =>
    \A i \in ContentLines(lines) :
      (/\ Contains(lines[i], ":")
       /\ \E k \in DOMAIN ClaimedKey(lines[i]) :
            LET ch == ClaimedKey(lines[i])[k]
            IN  ~(IsWord(ch) \/ IsSpace(ch) \/ ch = "-")
       /\ PrefixPasses(lines, i))
        => result = Invalid(i, InvalidKeyChar, ClaimedKey(lines[i]))

\* the invalid-key error for the key a.b on a second line
C11_Witness ==
  /\ pc = "returned"
  /\ result = Invalid(2, InvalidKeyChar, <<"a", ".", "b">>)
  /\ 1 \in ContentLines(lines)

\* C12: the indentation stack is strictly increasing from bottom to top.
C12_StackIncreasing ==
  \A i, j \in DOMAIN indentation_stack :
    i < j => indentation_stack[i] < indentation_stack[j]

\* a scan in progress with two widths on the stack
C12_Witness ==
  /\ pc = "loop" /\ line_num = 3
  /\ indentation_stack = <<0, 1>> /\ current_indent = 2

\* C13 as stated: the top of the indentation stack equals current_indent.
C13_TopIsCurrent ==
  indentation_stack # <<>> =>
    indentation_stack[Len(indentation_stack)] = current_indent

\* C13 amended: the top of the indentation stack is strictly smaller than
\* current_indent (it is the width that was left, not the one that is active).
C13_TopBelowCurrent ==
  indentation_stack # <<>> =>
    indentation_stack[Len(indentation_stack)] < current_indent

\* after a line of width 2 that followed one of width 1: top 1, current 2
C13_Witness ==
  /\ pc = "loop" /\ line_num = 2
  /\ indentation_stack # <<>>
  /\ indentation_stack[Len(indentation_stack)] = 1 /\ current_indent = 2

\* C16: current_indent is strictly greater than every width on the stack, a
\* non-empty stack has 0 at its bottom, and current_indent is no element of
\* the stack.
C16_CurrentAboveStack ==
  /\ \A i \in DOMAIN indentation_stack : indentation_stack[i] < current_indent
  /\ indentation_stack # <<>> => indentation_stack[1] = 0
  /\ ~InList(current_indent, indentation_stack)

\* a first content line of width 2: the stack holds 0 alone, under 2
C16_Witness ==
  /\ pc = "loop" /\ line_num = 1
  /\ indentation_stack = <<0>> /\ current_indent = 2

\* ls with every blank or comment line replaced by an empty line
Blanked(ls) == [i \in DOMAIN ls |-> IF i \in ContentLines(ls) THEN ls[i] ELSE <<>>]

\* the line the loop takes next is blank or a comment
AtSkippedLine ==
  /\ pc = "loop" /\ line_num < Len(lines)
  /\ (line_num + 1) \notin ContentLines(lines)

\* C14: a blank or comment line never makes the call return and leaves the
\* stack and current_indent as they are, whatever it holds; an error never
\* names such a line, and the verdict is that of the text with these lines
\* emptied.
C14_SkippedLinesInert ==
  /\ [](pc = "returned" =>
          /\ ~result.is_valid => result.line \in ContentLines(lines)
          /\ result = basic_yaml_syntax_check(Join(Blanked(lines), NL)))
  /\ [][AtSkippedLine =>
          /\ pc' = "loop" /\ line_num' = line_num + 1
          /\ UNCHANGED <<indentation_stack, current_indent, result>>]_vars

\* a valid return after a comment that holds a tab and a '.', at a width
\* below current_indent
C14_Witness ==
  /\ pc = "returned" /\ result = Valid /\ Len(lines) = 2
  /\ lines[2] = <<"#", TAB, ".">>
  /\ indentation_stack = <<0>> /\ current_indent = 2

\* the line the loop takes next passes the shape checks and its width is
\* below current_indent and on the stack
DedentOnStack ==
  /\ pc = "loop" /\ line_num < Len(lines)
  /\ (line_num + 1) \in ContentLines(lines)
  /\ ShapeOK(lines[line_num + 1])
  /\ Width(lines, line_num + 1) < current_indent
  /\ InList(Width(lines, line_num + 1), indentation_stack)

\* C15: a width below current_indent that is on the stack ends the pop loop
\* with current_indent equal to it, the matching entry and everything above it
\* popped, and the line accepted; the return under "indent != current_indent"
\* is taken in no reachable state.
C15_PopEndsOnMatch ==
  /\ []((pc = "loop" /\ line_num < Len(lines)) =>
          LoopBody(lines[line_num + 1], line_num + 1, indentation_stack,
                   current_indent).site # "mismatch")
  /\ [][DedentOnStack =>
          /\ pc' = "loop"
          /\ current_indent' = Width(lines, line_num + 1)
          /\ \E k \in DOMAIN indentation_stack :
               /\ indentation_stack[k] = Width(lines, line_num + 1)
               /\ indentation_stack' = SubSeq(indentation_stack, 1, k - 1)]_vars

\* widths 0, 1, 2, 0: the fourth line popped 1 and 0 and left current_indent 0
C15_Witness ==
  /\ pc = "loop" /\ line_num = 4
  /\ \A i \in 1..4 : i \in ContentLines(lines)
  /\ Width(lines, 1) = 0 /\ Width(lines, 2) = 1 /\ Width(lines, 3) = 2 /\ Width(lines, 4) = 0
  /\ indentation_stack = <<>> /\ current_indent = 0

\* C17: the reason reported for a line follows the order missing colon,
\* invalid key, tab, inconsistent indentation: each reason is reported exactly
\* when the line fails that check and passes the ones before it; and the
\* stack and current_indent change during the loop only on a content line
\* that passes the three shape checks.
C17_ReasonPrecedence ==
  /\ []((pc = "returned" /\ ~result.is_valid) =>
          /\ result.line \in ContentLines(lines)
          /\ LET l == lines[result.line]
             IN  /\ result.reason \in {MissingColon, InvalidKeyChar, TabFound, Inconsistent}
                 /\ result.reason = MissingColon <=> ~HasDelimiter(l)
                 /\ result.reason = InvalidKeyChar <=> (HasDelimiter(l) /\ ~KeyAllowed(l))
                 /\ result.reason = TabFound <=>
                      (HasDelimiter(l) /\ KeyAllowed(l) /\ Contains(l, TAB))
                 /\ result.reason = Inconsistent <=> ShapeOK(l))
  /\ [][(pc = "loop" /\ <<indentation_stack, current_indent>>' #
                          <<indentation_stack, current_indent>>) =>
          /\ (line_num + 1) \in ContentLines(lines)
          /\ ShapeOK(lines[line_num + 1])]_vars

\* the tab error on a line whose width, 1 under current_indent 2 and not on
\* the stack, the indentation block would have rejected
C17_Witness ==
  /\ pc = "returned" /\ result = Invalid(2, TabFound, <<>>)
  /\ Width(lines, 2) = 1
  /\ indentation_stack = <<0>> /\ current_indent = 2

====
